---- MODULE Spec2Model ----
(***************************************************************************)
(* tfl-lump: the rate limited transport (tflump/client.py) and the stores  *)
(* (tflump/stores.py).                                                     *)
(*                                                                         *)
(* SpecRate  : calls made one at a time through one RateLimit object.      *)
(* SpecStops : StopPointStore objects constructed, loaded, saved and added *)
(*             to by the program.                                          *)
(* SpecLines : one LineStore with its StopPointStore: load(), fetch() and  *)
(*             save(), fetch() taken step by step.                         *)
(* SpecDrift : SpecLines with an API that serves another collection from   *)
(*             one call to the next.                                       *)
(* SpecCrash : StopPointStore objects of a process that may stop, save()   *)
(*             taken in two steps: the file opened, the file written.      *)
(* FairLines : one LineStore whose fetch(), once started, goes on to its   *)
(*             end.                                                        *)
(* SpecAnyClock : SpecRate under a clock that may be set forward or back.  *)
(* SpecThreads  : two threads calling handle_request on one RateLimit      *)
(*             object, with and without a lock held around each call.      *)
(*                                                                         *)
(* Time is sampled on a grid of whole seconds: `clock` is the reading of   *)
(* datetime.now(), time.sleep(w) returns at the first grid instant that is *)
(* at least w after its start or later.  Time passes (Tick) between calls, *)
(* while the inner transport works, while a sleep lasts and while the      *)
(* admission loop spins; the statements in between take no time.           *)
(***************************************************************************)
EXTENDS Integers, Sequences, FiniteSets, TLC

\* ------------------------------------------------------------------ bounds
MaxM == 2
MaxP == 4
MaxTime == 9
MaxCalls == 4
MaxBatch == 2
MaxStubs == 2
MaxJump == 2
MaxJumpCalls == 2
MaxBackoff == 2
MaxPeriod == 2
MaxThreadTime == 3
MaxThreadCalls == 1

\* ------------------------------------------------------- program constants
\* FACTOR = 0.5 as the fraction FACTOR_NUM / FACTOR_DEN
FACTOR_NUM == 1
FACTOR_DEN == 2
BASE == 2
\* the 0.7 of the debounce interval as DEBOUNCE_NUM / DEBOUNCE_DEN
DEBOUNCE_NUM == 7
DEBOUNCE_DEN == 10
\* the defaults of get_tfl_client
DEFAULT_MAX_REQUESTS == 500
DEFAULT_REQUEST_PERIOD == 60

NoTime == 0 - 1

VARIABLES
    \* RateLimit instance
    MAX_REQUESTS, REQUEST_PERIOD, history, prev,
    \* locals of the running handle_request
    timestamp, now, backoff_count, pc,
    \* the wall clock, the end of the running time.sleep, the inner transport
    clock, wake, inner,
    \* what the caller of handle_request got back
    result,
    \* observation: every timestamp ever appended, the instants calls were
    \* forwarded, history when the admission loop was entered and left
    recorded, issued, entryHistory, admitHistory, ncalls,
    \* the files under the package's data directory: path -> pickled bytes
    files,
    \* the StopPointStore objects and the LineStore object
    sp, ls,
    \* LineStore.fetch in progress: its position, its caller, its locals
    lpc, caller, temp, line_list, stub_i, section_j, seq_k, line_dict,
    \* the collection the API serves, the requests of the current run, the
    \* checkpoint the current run started from
    api, reqlog, startTemp,
    \* the call that ran last and what it returned
    last,
    \* the threads that call handle_request on the one RateLimit instance,
    \* each with its position and its locals, and the lock their caller
    \* holds around a call ("absent" where the program has none)
    threads, lock

rateVars == <<MAX_REQUESTS, REQUEST_PERIOD, history, prev, timestamp, now,
              backoff_count, pc, clock, wake, inner, result, recorded,
              issued, entryHistory, admitHistory, ncalls>>

threadVars == <<threads, lock>>

fetchVars == <<lpc, caller, temp, line_list, stub_i, section_j, seq_k, line_dict,
               reqlog, startTemp>>

storeVars == <<files, sp, ls, fetchVars, api, last>>

vars == <<rateVars, storeVars, threadVars>>

\* ------------------------------------------------------------- arithmetic
Larger(a, b) == IF a <= b THEN b ELSE a
Min(a, b) == IF a <= b THEN a ELSE b

CeilDiv(a, b) == (a + b - 1) \div b

RECURSIVE Pow(_, _)
Pow(b, e) == IF e = 0 THEN 1 ELSE b * Pow(b, e - 1)

\* ----------------------------------------------------------- RateLimit
\* (now - self._prev).total_seconds() < self._debounce, with
\* _debounce = (request_period / max_requests) * 0.7
Debouncing(n, p, M, P) == DEBOUNCE_DEN * M * (n - p) < DEBOUNCE_NUM * P

\* time.sleep(self._debounce - (now - self._prev).total_seconds()):
\* the whole seconds it takes
DebounceSleep(n, p, M, P) ==
    CeilDiv(DEBOUNCE_NUM * P - DEBOUNCE_DEN * M * (n - p), DEBOUNCE_DEN * M)

\* delta(): age of the oldest entry, 0 for an empty history
delta(h, n) == IF Len(h) > 0 THEN n - h[1] ELSE 0

\* while len(self.history) > 0 and delta() > self.REQUEST_PERIOD: popleft()
SlideNoAgeCheck(h, n, P) == IF Len(h) > 0 THEN Tail(h) ELSE h

SlideOnce(h, n, P) == IF Len(h) > 0 /\ delta(h, n) > P THEN Tail(h) ELSE h

RECURSIVE Slide(_, _, _)
Slide(h, n, P) ==
    IF Len(h) > 0 /\ delta(h, n) > P THEN Slide(Tail(h), n, P) ELSE h

\* len(self.history) >= self.MAX_REQUESTS
AtCapacityOffByOne(h, M) == Len(h) > M
AtCapacity(h, M) == Len(h) >= M

\* FACTOR * BASE**backoff_count + random.uniform(0, 1): the whole seconds a
\* sleep of that length can take (jitter 0 or more than 0)
Backoffs(k) ==
    LET lo == CeilDiv(FACTOR_NUM * Pow(BASE, k), FACTOR_DEN) IN {lo, lo + 1}

\* self.history.append(now) is reached only when the inner transport returned
Responses == {"2xx", "non2xx"}
Raises == {"ConnectError", "ReadTimeout"}
Outcomes == Responses \cup Raises

AppendAlways(h, n, outcome) == Append(h, n)
AppendedOn2xx(h, n, outcome) == IF outcome = "2xx" THEN Append(h, n) ELSE h
AppendedAtReturn(h, n, outcome) ==
    IF outcome \in Raises THEN h ELSE Append(h, clock)
Appended(h, n, outcome) == IF outcome \in Raises THEN h ELSE Append(h, n)

\* ------------------------------------------------------------------ stores
\* a dict with no key
EmptyDict == [x \in {} |-> x]

\* d[key] = value
Put(d, key, value) ==
    [x \in DOMAIN d \cup {key} |-> IF x = key THEN value ELSE d[x]]

\* pickle.dump(self.data, lib_file): the items of the dict as the file's content
PickleDropsLast(d) ==
    IF DOMAIN d = {} THEN {}
    ELSE {<<key, d[key]>> : key \in DOMAIN d \ {CHOOSE x \in DOMAIN d : TRUE}}
Pickle(d) == {<<key, d[key]>> : key \in DOMAIN d}

\* pickle.load(datafile): the dict rebuilt from the items in the file
Unpickle(bytes) ==
    [key \in {item[1] : item \in bytes} |->
        (CHOOSE item \in bytes : item[1] = key)[2]]

\* self.datadir / (self.storename + ".pkl")
PklPath(storename) == storename \o ".pkl"

\* self.datadir / (self.storename + "_temp.pkl")
TempPath(storename) == storename \o "_temp.pkl"

\* f"data/lines-{mode}", the storename of LineStore, for the mode bus
LineStoreName == "data/lines-bus"

\* "data/stoppoints", the storename of StopPointStore
StopPointStoreName == "data/stoppoints"

\* datafile.is_file()
IsFile(fs, path) == path \in DOMAIN fs

\* Store.save(): the whole mapping overwrites the store's file
SaveElsewhere(fs, storename, data) == Put(fs, storename \o ".pickle", Pickle(data))
Store_save(fs, storename, data) == Put(fs, PklPath(storename), Pickle(data))

\* Store.fetch(): the base hook, used by StopPointStore
Store_fetch == EmptyDict

\* the loop of add_stop_points: an id not in self.data gets the stop point
AddNothing(data, stoppoints) == data
RECURSIVE AddOverwrites(_, _)
AddOverwrites(data, stoppoints) ==
    IF stoppoints = <<>> THEN data
    ELSE AddOverwrites(Put(data, Head(stoppoints).id, Head(stoppoints)),
                       Tail(stoppoints))
RECURSIVE AddOnlyFirst(_, _)
AddOnlyFirst(data, stoppoints) ==
    IF stoppoints = <<>> THEN data
    ELSE IF Head(stoppoints).id \in DOMAIN data
         THEN AddOnlyFirst(data, Tail(stoppoints))
         ELSE Put(data, Head(stoppoints).id, Head(stoppoints))
RECURSIVE AddIfAbsent(_, _)
AddIfAbsent(data, stoppoints) ==
    IF stoppoints = <<>> THEN data
    ELSE AddIfAbsent(
            IF Head(stoppoints).id \in DOMAIN data THEN data
            ELSE Put(data, Head(stoppoints).id, Head(stoppoints)),
            Tail(stoppoints))

\* dirty: some stop point of the list was inserted
NeverDirty(data, stoppoints) == FALSE
Dirty(data, stoppoints) ==
    \E n \in DOMAIN stoppoints : stoppoints[n].id \notin DOMAIN data

\* add_stop_points has no return statement
None == <<>>

\* the StopPointStore objects the program holds, the stop points it may be
\* handed
SpStores == {"sp_store", "sp_store2"}
StopPoints ==
    {[id |-> "490010877H", name |-> "PeckhamBusStation"],
     [id |-> "490010877H", name |-> "Peckham"],
     [id |-> "490G00010877", name |-> "Peckham"]}
StopPointLists == UNION {[1..n -> StopPoints] : n \in 0..MaxBatch}

NoObject == [alive |-> FALSE]
\* the lines the API knows, the directions of their route sections
LineIds == {"177", "381", "p12"}
Directions(id) ==
    CASE id = "177" -> <<"inbound", "outbound">>
      [] id = "381" -> <<"outbound">>
      [] OTHER -> <<"inbound">>

\* a line stub of GET /Line/Mode/{mode}/Route
Stub(id) ==
    [id |-> id,
     routeSections |-> [n \in 1..Len(Directions(id)) |->
                           [direction |-> Directions(id)[n]]]]

\* the collections the API may serve
LineLists == UNION {[1..n -> {Stub(id) : id \in LineIds}] : n \in 1..MaxStubs}

\* seq_dict["stopPointSequences"][*]["stopPoint"] of
\* GET /Line/{id}/Route/Sequence/{direction}
StopPointSequences(id, direction) ==
    CASE id = "177" /\ direction = "inbound" ->
            << <<[id |-> "490010877H", name |-> "PeckhamBusStation"]>> >>
      [] id = "177" /\ direction = "outbound" ->
            << <<[id |-> "490010877H", name |-> "Peckham"],
                 [id |-> "490G00010877", name |-> "Peckham"]>> >>
      [] id = "381" ->
            << <<[id |-> "490G00010877", name |-> "Peckham"]>>,
               <<[id |-> "490010877H", name |-> "Peckham"]>> >>
      [] OTHER -> << >>

\* is_outbound_only, line_strings, ordered_line_routes of the route sequence
RouteSequenceOf(id, direction) ==
    [isOutboundOnly |-> (Directions(id) = <<"outbound">>),
     orderedLineRoutes |-> StopPointSequences(id, direction)]

\* section["isOutboundOnly"] = ...; section["lineStrings"] = ...;
\* section["orderedLineRoutes"] = ...
MergeSection(dict, n, route_sequence) ==
    [dict EXCEPT !.routeSections[n] =
        [direction |-> dict.routeSections[n].direction,
         isOutboundOnly |-> route_sequence.isOutboundOnly,
         orderedLineRoutes |-> route_sequence.orderedLineRoutes]]

\* Line.model_validate(line_dict).model_dump()
LineDump(dict) == [id |-> dict.id, route_sections |-> dict.routeSections]

\* temp[line.id] = line.model_dump()
IndexedNowhere(catalogue, line) == catalogue
IndexedAlone(catalogue, line) == Put(EmptyDict, line.id, line)
Indexed(catalogue, line) == Put(catalogue, line.id, line)

\* line_dict["id"] in temp
SkipsAll(catalogue, id) == TRUE
RefetchesAll(catalogue, id) == FALSE
Fetched(catalogue, id) == id \in DOMAIN catalogue

\* the route sections of line_dict from the n-th on, merged one after the other
RECURSIVE MergeAll(_, _)
MergeAll(dict, n) ==
    IF n > Len(dict.routeSections) THEN dict
    ELSE MergeAll(MergeSection(dict, n,
                    RouteSequenceOf(dict.id, dict.routeSections[n].direction)),
                  n + 1)

\* what fetch() returns when it starts from the catalogue acc and nothing fails
RECURSIVE FetchAll(_, _)
FetchAll(list, acc) ==
    IF list = <<>> THEN acc
    ELSE FetchAll(Tail(list),
                  IF Head(list).id \in DOMAIN acc THEN acc
                  ELSE Put(acc, Head(list).id, LineDump(MergeAll(Head(list), 1))))

\* except Exception: with temppath.open("wb") as lib_file: pickle.dump(temp, lib_file)
DumpNothing(fs, temppath, catalogue) == fs
DumpCheckpoint(fs, temppath, catalogue) == Put(fs, temppath, Pickle(catalogue))

\* the `return {}` of the except branch
ReturnsPartial(catalogue) == catalogue
ReturnedOnError(catalogue) == EmptyDict

\* temppath.unlink(missing_ok=True)
UnlinkKeeps(fs, path) == fs
Unlink(fs, path) == [file \in DOMAIN fs \ {path} |-> fs[file]]

\* the endpoints
CollectionEndpoint == [kind |-> "collection"]
SequenceEndpoint(id, direction) ==
    [kind |-> "sequence", line |-> id, direction |-> direction]

\* what self.request(endpoint) ends with
RequestOutcomes == {"ok", "RequestError", "HTTPStatusError"}

InitFetch ==
    /\ lpc = "idle"
    /\ caller = "none"
    /\ temp = EmptyDict
    /\ line_list = <<>>
    /\ stub_i = 0
    /\ section_j = 0
    /\ seq_k = 0
    /\ line_dict = EmptyDict
    /\ reqlog = <<>>
    /\ startTemp = EmptyDict

\* the callers of handle_request and a thread that is not in a call
Threads == {"t1", "t2"}
IdleThread ==
    [pc |-> "idle", timestamp |-> NoTime, now |-> NoTime, backoff_count |-> 0,
     wake |-> NoTime, calls |-> 0, result |-> "none"]

\* RateLimit(transport, max_requests, request_period), not yet called
InitRateLimit(Ms, Ps, locks) ==
    /\ MAX_REQUESTS \in Ms
    /\ REQUEST_PERIOD \in Ps
    /\ history = <<>>
    /\ clock = 0
    /\ wake = NoTime
    /\ prev = 0
    /\ timestamp = NoTime
    /\ now = NoTime
    /\ backoff_count = 0
    /\ pc = "idle"
    /\ inner = "none"
    /\ result = "none"
    /\ recorded = <<>>
    /\ issued = <<>>
    /\ entryHistory = <<>>
    /\ admitHistory = <<>>
    /\ ncalls = 0
    /\ threads = [t \in Threads |-> IdleThread]
    /\ lock \in locks

\* one caller at a time, which needs no lock
InitLimiter(Ms, Ps) == InitRateLimit(Ms, Ps, {"absent"})

\* an empty data directory, no store constructed, the API serving `lists`
InitStores(lists) ==
    /\ files = EmptyDict
    /\ sp = [s \in SpStores |-> NoObject]
    /\ ls = NoObject
    /\ InitFetch
    /\ api \in lists
    /\ last = [op |-> "none"]

InitRate ==
    /\ InitLimiter(1..MaxM, 1..MaxP)
    /\ InitStores({<<Stub("177")>>})

\* time passes
Tick ==
    /\ clock < MaxTime
    /\ pc \in {"idle", "inflight", "refresh"} \/ wake # NoTime
    /\ clock' = clock + 1
    /\ UNCHANGED <<storeVars, threadVars>>
    /\ UNCHANGED <<MAX_REQUESTS, REQUEST_PERIOD, history, prev, timestamp, now,
                   backoff_count, pc, wake, inner, result, recorded, issued,
                   entryHistory, admitHistory, ncalls>>

\* handle_request is called: timestamp = now = datetime.now(); backoff_count = 0
Enter ==
    /\ pc = "idle"
    /\ ncalls < MaxCalls
    /\ ncalls' = ncalls + 1
    /\ timestamp' = clock
    /\ now' = clock
    /\ backoff_count' = 0
    /\ inner' = "none"
    /\ result' = "none"
    /\ pc' = "debounce"
    /\ UNCHANGED <<storeVars, threadVars>>
    /\ UNCHANGED <<MAX_REQUESTS, REQUEST_PERIOD, history, prev, clock, wake,
                   recorded, issued, entryHistory, admitHistory>>

\* if (now - self._prev) < self._debounce: time.sleep(...)
Debounce ==
    /\ pc = "debounce"
    /\ wake' = IF Debouncing(now, prev, MAX_REQUESTS, REQUEST_PERIOD)
               THEN clock + DebounceSleep(now, prev, MAX_REQUESTS, REQUEST_PERIOD)
               ELSE NoTime
    /\ pc' = "stamp"
    /\ UNCHANGED <<storeVars, threadVars>>
    /\ UNCHANGED <<MAX_REQUESTS, REQUEST_PERIOD, history, prev, timestamp, now,
                   backoff_count, clock, inner, result, recorded, issued,
                   entryHistory, admitHistory, ncalls>>

\* self._prev = timestamp = now = datetime.now(), once the sleep is over
Stamp ==
    /\ pc = "stamp"
    /\ clock >= wake
    /\ wake' = NoTime
    /\ prev' = clock
    /\ timestamp' = clock
    /\ now' = clock
    /\ entryHistory' = history
    /\ pc' = "admit"
    /\ UNCHANGED <<storeVars, threadVars>>
    /\ UNCHANGED <<MAX_REQUESTS, REQUEST_PERIOD, history, backoff_count, clock,
                   inner, result, recorded, issued, admitHistory, ncalls>>

\* one pass of `while len(self.history) >= self.MAX_REQUESTS`, up to the
\* call of time.sleep(wait)
Admit ==
    /\ pc = "admit"
    /\ AtCapacity(history, MAX_REQUESTS)
    /\ history' = Slide(history, now, REQUEST_PERIOD)
    /\ IF AtCapacity(history', MAX_REQUESTS)
       THEN LET elapsed == now - timestamp IN
            /\ IF elapsed < REQUEST_PERIOD
               THEN \E backoff \in Backoffs(backoff_count) :
                      /\ wake' = clock + Min(REQUEST_PERIOD - elapsed, backoff)
                      /\ backoff_count' = backoff_count + 1
               ELSE UNCHANGED <<wake, backoff_count>>
            /\ pc' = "refresh"
       ELSE /\ pc' = "admit"
            /\ UNCHANGED <<wake, backoff_count>>
    /\ UNCHANGED <<storeVars, threadVars>>
    /\ UNCHANGED <<MAX_REQUESTS, REQUEST_PERIOD, prev, timestamp, now, clock,
                   inner, result, recorded, issued, entryHistory, admitHistory,
                   ncalls>>

\* now = datetime.now() at the end of a throttled pass, once the sleep is over
Refresh ==
    /\ pc = "refresh"
    /\ clock >= wake
    /\ wake' = NoTime
    /\ now' = clock
    /\ pc' = "admit"
    /\ UNCHANGED <<storeVars, threadVars>>
    /\ UNCHANGED <<MAX_REQUESTS, REQUEST_PERIOD, history, prev, timestamp,
                   backoff_count, clock, inner, result, recorded, issued,
                   entryHistory, admitHistory, ncalls>>

\* the loop is left and self.transport.handle_request(request) is called
Forward ==
    /\ pc = "admit"
    /\ ~AtCapacity(history, MAX_REQUESTS)
    /\ issued' = Append(issued, clock)
    /\ admitHistory' = history
    /\ pc' = "inflight"
    /\ UNCHANGED <<storeVars, threadVars>>
    /\ UNCHANGED <<MAX_REQUESTS, REQUEST_PERIOD, history, prev, timestamp, now,
                   backoff_count, clock, wake, inner, result, recorded,
                   entryHistory, ncalls>>

\* the inner transport returns a response or raises; on a response
\* self.history.append(now) and the response is returned, an error
\* propagates to the caller as it is
Return ==
    /\ pc = "inflight"
    /\ \E outcome \in Outcomes :
        /\ inner' = outcome
        /\ history' = Appended(history, now, outcome)
        /\ recorded' = IF history' = history THEN recorded ELSE Append(recorded, now)
        /\ result' = outcome
    /\ pc' = "idle"
    /\ UNCHANGED <<storeVars, threadVars>>
    /\ UNCHANGED <<MAX_REQUESTS, REQUEST_PERIOD, prev, timestamp, now,
                   backoff_count, clock, wake, issued, entryHistory, admitHistory,
                   ncalls>>

NextRate ==
    \/ Tick
    \/ Enter
    \/ Debounce
    \/ Stamp
    \/ Admit
    \/ Refresh
    \/ Forward
    \/ Return

SpecRate == InitRate /\ [][NextRate]_vars

\* the wall clock is set, forward or back, while a call runs or between calls
ClockJumps ==
    /\ \E t \in 0..MaxJump : t # clock /\ clock' = t
    /\ UNCHANGED <<storeVars, threadVars>>
    /\ UNCHANGED <<MAX_REQUESTS, REQUEST_PERIOD, history, prev, timestamp, now,
                   backoff_count, pc, wake, inner, result, recorded, issued,
                   entryHistory, admitHistory, ncalls>>

\* calls made one at a time under a clock that may be set to any instant at
\* any time
NextAnyClock ==
    \/ ClockJumps
    \/ Enter /\ ncalls' <= MaxJumpCalls
    \/ Debounce
    \/ Stamp
    \/ Admit /\ backoff_count' <= MaxBackoff
    \/ Refresh
    \/ Forward
    \/ Return

InitAnyClock ==
    /\ InitLimiter(1..MaxM, 1..MaxPeriod)
    /\ InitStores({<<Stub("177")>>})

SpecAnyClock == InitAnyClock /\ [][NextAnyClock]_vars

\* --------------------------------------- two threads on one RateLimit object
\* handle_request run by the threads of Threads, a statement that reads or
\* writes self.history or self._prev at a time; a thread may be preempted
\* between any two of them, so time passes between any two steps
callVars == <<timestamp, now, backoff_count, pc, wake, inner, result, issued,
              entryHistory, admitHistory, ncalls>>

InitThreads ==
    /\ InitRateLimit(1..MaxM, 1..MaxPeriod, {"absent", "free"})
    /\ InitStores({<<Stub("177")>>})

Released(t) == IF lock = t THEN "free" ELSE lock

ThreadTick ==
    /\ clock < MaxThreadTime
    /\ clock' = clock + 1
    /\ UNCHANGED <<MAX_REQUESTS, REQUEST_PERIOD, history, prev, recorded>>
    /\ UNCHANGED <<storeVars, callVars, threadVars>>

\* the caller takes its lock before it calls handle_request
ThreadAcquire(t) ==
    /\ lock = "free"
    /\ threads[t].pc = "idle"
    /\ threads[t].calls < MaxThreadCalls
    /\ lock' = t
    /\ threads' = [threads EXCEPT ![t].pc = "locked"]
    /\ UNCHANGED <<MAX_REQUESTS, REQUEST_PERIOD, history, prev, recorded, clock>>
    /\ UNCHANGED <<storeVars, callVars>>

\* timestamp = now = datetime.now(); backoff_count = 0
ThreadEnter(t) ==
    /\ \/ threads[t].pc = "locked"
       \/ /\ lock = "absent"
          /\ threads[t].pc = "idle"
          /\ threads[t].calls < MaxThreadCalls
    /\ threads' = [threads EXCEPT ![t] =
                      [pc |-> "debounce", timestamp |-> clock, now |-> clock,
                       backoff_count |-> 0, wake |-> NoTime,
                       calls |-> @.calls + 1, result |-> "none"]]
    /\ UNCHANGED <<MAX_REQUESTS, REQUEST_PERIOD, history, prev, recorded, clock,
                   lock>>
    /\ UNCHANGED <<storeVars, callVars>>

\* if (now - self._prev) < self._debounce: time.sleep(...); a sleep that
\* lasts longer because self._prev was written in between is a sleep that
\* returns late
ThreadDebounce(t) ==
    /\ threads[t].pc = "debounce"
    /\ threads' = [threads EXCEPT
          ![t].wake = IF Debouncing(threads[t].now, prev, MAX_REQUESTS, REQUEST_PERIOD)
                      THEN clock + DebounceSleep(threads[t].now, prev,
                                                 MAX_REQUESTS, REQUEST_PERIOD)
                      ELSE NoTime,
          ![t].pc = "stamp"]
    /\ UNCHANGED <<MAX_REQUESTS, REQUEST_PERIOD, history, prev, recorded, clock,
                   lock>>
    /\ UNCHANGED <<storeVars, callVars>>

\* self._prev = timestamp = now = datetime.now(), once the sleep is over
ThreadStamp(t) ==
    /\ threads[t].pc = "stamp"
    /\ clock >= threads[t].wake
    /\ prev' = clock
    /\ threads' = [threads EXCEPT ![t].wake = NoTime, ![t].timestamp = clock,
                                  ![t].now = clock, ![t].pc = "check"]
    /\ UNCHANGED <<MAX_REQUESTS, REQUEST_PERIOD, history, recorded, clock, lock>>
    /\ UNCHANGED <<storeVars, callVars>>

ThreadCheckPasses(t) ==
    /\ threads[t].pc = "check"
    /\ threads' = [threads EXCEPT ![t].pc = "inflight"]
    /\ UNCHANGED <<MAX_REQUESTS, REQUEST_PERIOD, history, prev, recorded, clock,
                   lock>>
    /\ UNCHANGED <<storeVars, callVars>>

\* while len(self.history) >= self.MAX_REQUESTS: into the loop, or past it
\* to self.transport.handle_request(request)
ThreadCheck(t) ==
    /\ threads[t].pc = "check"
    /\ threads' = [threads EXCEPT
          ![t].pc = IF AtCapacity(history, MAX_REQUESTS) THEN "slide" ELSE "inflight"]
    /\ UNCHANGED <<MAX_REQUESTS, REQUEST_PERIOD, history, prev, recorded, clock,
                   lock>>
    /\ UNCHANGED <<storeVars, callVars>>

\* while len(self.history) > 0 and delta() > self.REQUEST_PERIOD
ThreadSlide(t) ==
    /\ threads[t].pc = "slide"
    /\ threads' = [threads EXCEPT
          ![t].pc = IF Len(history) > 0 /\ delta(history, threads[t].now) > REQUEST_PERIOD
                    THEN "pop" ELSE "throttle"]
    /\ UNCHANGED <<MAX_REQUESTS, REQUEST_PERIOD, history, prev, recorded, clock,
                   lock>>
    /\ UNCHANGED <<storeVars, callVars>>

\* self.history.popleft(): IndexError, which ends the call, when another
\* thread has emptied the deque since the test
ThreadPop(t) ==
    /\ threads[t].pc = "pop"
    /\ IF Len(history) > 0
       THEN /\ history' = Tail(history)
            /\ threads' = [threads EXCEPT ![t].pc = "slide"]
            /\ lock' = lock
       ELSE /\ history' = history
            /\ threads' = [threads EXCEPT ![t].pc = "idle",
                                          ![t].result = "IndexError"]
            /\ lock' = Released(t)
    /\ UNCHANGED <<MAX_REQUESTS, REQUEST_PERIOD, prev, recorded, clock>>
    /\ UNCHANGED <<storeVars, callVars>>

\* if len(self.history) >= self.MAX_REQUESTS: the backoff, up to the call of
\* time.sleep(wait)
ThreadThrottle(t) ==
    /\ threads[t].pc = "throttle"
    /\ IF AtCapacity(history, MAX_REQUESTS)
       THEN LET elapsed == threads[t].now - threads[t].timestamp IN
            IF elapsed < REQUEST_PERIOD
            THEN \E backoff \in Backoffs(threads[t].backoff_count) :
                    threads' = [threads EXCEPT
                       ![t].wake = clock + Min(REQUEST_PERIOD - elapsed, backoff),
                       ![t].backoff_count = @ + 1,
                       ![t].pc = "refresh"]
            ELSE threads' = [threads EXCEPT ![t].pc = "refresh"]
       ELSE threads' = [threads EXCEPT ![t].pc = "check"]
    /\ UNCHANGED <<MAX_REQUESTS, REQUEST_PERIOD, history, prev, recorded, clock,
                   lock>>
    /\ UNCHANGED <<storeVars, callVars>>

\* now = datetime.now(), once the sleep is over
ThreadRefresh(t) ==
    /\ threads[t].pc = "refresh"
    /\ clock >= threads[t].wake
    /\ threads' = [threads EXCEPT ![t].wake = NoTime, ![t].now = clock,
                                  ![t].pc = "check"]
    /\ UNCHANGED <<MAX_REQUESTS, REQUEST_PERIOD, history, prev, recorded, clock,
                   lock>>
    /\ UNCHANGED <<storeVars, callVars>>

\* the inner transport returns a response or raises; on a response
\* self.history.append(now); the caller releases its lock
ThreadReturn(t) ==
    /\ threads[t].pc = "inflight"
    /\ \E outcome \in Outcomes :
        /\ history' = Appended(history, threads[t].now, outcome)
        /\ recorded' = IF history' = history THEN recorded
                       ELSE Append(recorded, threads[t].now)
        /\ threads' = [threads EXCEPT ![t].pc = "idle", ![t].result = outcome]
    /\ lock' = Released(t)
    /\ UNCHANGED <<MAX_REQUESTS, REQUEST_PERIOD, prev, clock>>
    /\ UNCHANGED <<storeVars, callVars>>

NextThreads ==
    \/ ThreadTick
    \/ \E t \in Threads :
        \/ ThreadAcquire(t)
        \/ ThreadEnter(t)
        \/ ThreadDebounce(t)
        \/ ThreadStamp(t)
        \/ ThreadCheck(t)
        \/ ThreadSlide(t)
        \/ ThreadPop(t)
        \/ ThreadThrottle(t)
        \/ ThreadRefresh(t)
        \/ ThreadReturn(t)

SpecThreads == InitThreads /\ [][NextThreads]_vars

\* ------------------------------------------------------ the stores' calls
\* the StopPointStore objects after object s wrote the stop point file:
\* s has its mapping on file, no other object can say so any more (an object
\* is fresh until a method is called on it, loaded once load() returned)
Wrote(objs, s) ==
    [o \in SpStores |->
        IF o = s THEN [objs[o] EXCEPT !.synced = TRUE, !.fresh = FALSE]
        ELSE IF objs[o].alive THEN [objs[o] EXCEPT !.synced = FALSE]
        ELSE objs[o]]

\* StopPointStore(): Store.__init__ leaves self.data = {}
NewStopPointStore(s) ==
    /\ lpc = "idle"
    /\ sp' = [sp EXCEPT ![s] = [alive |-> TRUE, data |-> EmptyDict,
                                fresh |-> TRUE, synced |-> FALSE,
                                loaded |-> FALSE]]
    /\ last' = [op |-> "new", who |-> s]
    /\ UNCHANGED <<files, ls, fetchVars, api>>
    /\ UNCHANGED <<rateVars, threadVars>>

\* Store.load() on the StopPointStore object s, whose fetch() is the base hook:
\* the objects and the files after it
LoadStopPointsOf(s) ==
    LET path == PklPath(StopPointStoreName) IN
    IF IsFile(files, path)
    THEN /\ sp' = [sp EXCEPT ![s].data = Unpickle(files[path]),
                             ![s].fresh = FALSE, ![s].synced = FALSE,
                             ![s].loaded = TRUE]
         /\ files' = files
    ELSE /\ sp' = Wrote([sp EXCEPT ![s].data = Store_fetch,
                                   ![s].loaded = TRUE], s)
         /\ files' = Store_save(files, StopPointStoreName, Store_fetch)

\* StopPointStore.load(), called by the program
LoadStopPoints(s) ==
    /\ lpc = "idle"
    /\ sp[s].alive
    /\ LoadStopPointsOf(s)
    /\ last' = [op |-> "load", who |-> s,
                hadFile |-> IsFile(files, PklPath(StopPointStoreName)),
                fresh |-> sp[s].fresh]
    /\ UNCHANGED <<ls, fetchVars, api>>
    /\ UNCHANGED <<rateVars, threadVars>>

\* StopPointStore.save(), called by the program
SaveStopPoints(s) ==
    /\ lpc = "idle"
    /\ sp[s].alive
    /\ files' = Store_save(files, StopPointStoreName, sp[s].data)
    /\ sp' = Wrote(sp, s)
    /\ last' = [op |-> "save", who |-> s]
    /\ UNCHANGED <<ls, fetchVars, api>>
    /\ UNCHANGED <<rateVars, threadVars>>

\* add_stop_points(stoppoints) on the object s: the objects and the files
\* after it
AddStopPointsTo(s, stoppoints) ==
    IF Dirty(sp[s].data, stoppoints)
    THEN /\ sp' = Wrote([sp EXCEPT ![s].data = AddIfAbsent(sp[s].data, stoppoints)], s)
         /\ files' = Store_save(files, StopPointStoreName, sp'[s].data)
    ELSE /\ sp' = [sp EXCEPT ![s].data = AddIfAbsent(sp[s].data, stoppoints),
                             ![s].fresh = FALSE]
         /\ files' = files

\* StopPointStore.add_stop_points(stoppoints), called by the program
AddStopPoints(s, stoppoints) ==
    /\ lpc = "idle"
    /\ sp[s].alive
    /\ AddStopPointsTo(s, stoppoints)
    /\ last' = [op |-> "add", who |-> s, stoppoints |-> stoppoints,
                before |-> sp[s].data, ret |-> None]
    /\ UNCHANGED <<ls, fetchVars, api>>
    /\ UNCHANGED <<rateVars, threadVars>>

\* LineStore(client, mode, stop_point_store): stop_point_store is the object
\* s when it exists, else a new StopPointStore; then stop_point_store.load()
NewLineStore(s) ==
    /\ lpc = "idle"
    /\ ls' = [alive |-> TRUE, data |-> EmptyDict, stop_point_store |-> s]
    /\ LET path == PklPath(StopPointStoreName)
           objs == IF sp[s].alive THEN sp
                   ELSE [sp EXCEPT ![s] = [alive |-> TRUE, data |-> EmptyDict,
                                           fresh |-> TRUE, synced |-> FALSE,
                                           loaded |-> FALSE]]
       IN
       IF IsFile(files, path)
       THEN /\ sp' = [objs EXCEPT ![s].data = Unpickle(files[path]),
                                  ![s].fresh = FALSE, ![s].synced = FALSE,
                                  ![s].loaded = TRUE]
            /\ files' = files
       ELSE /\ sp' = Wrote([objs EXCEPT ![s].data = Store_fetch,
                                        ![s].loaded = TRUE], s)
            /\ files' = Store_save(files, StopPointStoreName, Store_fetch)
    /\ last' = [op |-> "new", who |-> "l_store"]
    /\ UNCHANGED <<fetchVars, api>>
    /\ UNCHANGED <<rateVars, threadVars>>

\* LineStore.save(), called by the program
SaveLines ==
    /\ lpc = "idle"
    /\ ls.alive
    /\ files' = Store_save(files, LineStoreName, ls.data)
    /\ last' = [op |-> "save", who |-> "l_store"]
    /\ UNCHANGED <<sp, ls, fetchVars, api>>
    /\ UNCHANGED <<rateVars, threadVars>>

\* no fetch() has been called by the running call
NoFetch ==
    /\ caller' = "none"
    /\ reqlog' = <<>>
    /\ UNCHANGED <<lpc, temp, line_list, stub_i, section_j, seq_k, line_dict,
                   startTemp>>

\* a fetch() that starts from temp = {} whatever is on file
BeginFetchAfresh(by) ==
    /\ caller' = by
    /\ temp' = EmptyDict
    /\ startTemp' = IF IsFile(files, TempPath(LineStoreName))
                    THEN Unpickle(files[TempPath(LineStoreName)])
                    ELSE EmptyDict
    /\ reqlog' = <<>>
    /\ line_list' = <<>>
    /\ stub_i' = 0
    /\ section_j' = 0
    /\ seq_k' = 0
    /\ line_dict' = EmptyDict
    /\ lpc' = "collect"

\* the first lines of LineStore.fetch(): temp is the checkpoint if there is one
BeginFetch(by) ==
    /\ caller' = by
    /\ temp' = IF IsFile(files, TempPath(LineStoreName))
               THEN Unpickle(files[TempPath(LineStoreName)])
               ELSE EmptyDict
    /\ startTemp' = temp'
    /\ reqlog' = <<>>
    /\ line_list' = <<>>
    /\ stub_i' = 0
    /\ section_j' = 0
    /\ seq_k' = 0
    /\ line_dict' = EmptyDict
    /\ lpc' = "collect"

\* LineStore.load(): the snapshot if there is one, else fetch() and save()
LoadLines ==
    /\ lpc = "idle"
    /\ ls.alive
    /\ LET path == PklPath(LineStoreName) IN
       /\ IF IsFile(files, path)
          THEN /\ ls' = [ls EXCEPT !.data = Unpickle(files[path])]
               /\ NoFetch
          ELSE /\ ls' = ls
               /\ BeginFetch("load")
       /\ last' = [op |-> "load", who |-> "l_store",
                   hadFile |-> IsFile(files, path),
                   snapshot |-> IF IsFile(files, path) THEN files[path] ELSE {},
                   outcome |-> IF IsFile(files, path) THEN "read" ELSE "running",
                   ret |-> None]
    /\ UNCHANGED <<files, sp, api>>
    /\ UNCHANGED <<rateVars, threadVars>>

\* LineStore.fetch(), called by the program
FetchLines ==
    /\ lpc = "idle"
    /\ ls.alive
    /\ BeginFetch("fetch")
    /\ last' = [op |-> "fetch", who |-> "l_store", outcome |-> "running",
                ret |-> None]
    /\ UNCHANGED <<files, sp, ls, api>>
    /\ UNCHANGED <<rateVars, threadVars>>

\* a fetch() that would go on after an error: nothing written, nothing returned
EndFetchGoesOn(outcome) ==
    /\ ls' = ls
    /\ files' = files
    /\ last' = [last EXCEPT !.outcome = outcome]
    /\ lpc' = lpc

\* fetch() ends: the except branch writes the checkpoint and returns {}, the
\* else branch unlinks the checkpoint and returns temp; load() then stores
\* what fetch() returned and save()s it
EndFetch(outcome) ==
    LET temppath == TempPath(LineStoreName)
        ret == IF outcome = "aborted" THEN ReturnedOnError(temp) ELSE temp
        fs == IF outcome = "aborted"
              THEN DumpCheckpoint(files, temppath, temp)
              ELSE Unlink(files, temppath)
    IN
    /\ IF caller = "load"
       THEN /\ ls' = [ls EXCEPT !.data = ret]
            /\ files' = Store_save(fs, LineStoreName, ret)
            /\ last' = [last EXCEPT !.outcome = outcome]
       ELSE /\ ls' = ls
            /\ files' = fs
            /\ last' = [last EXCEPT !.outcome = outcome, !.ret = <<ret>>]
    /\ lpc' = "idle"

\* line_list = self.request("/Line/Mode/{mode}/Route?...").json()
Collect ==
    /\ lpc = "collect"
    /\ reqlog' = Append(reqlog, CollectionEndpoint)
    /\ \E outcome \in RequestOutcomes :
        IF outcome = "ok"
        THEN /\ line_list' = api
             /\ stub_i' = 1
             /\ lpc' = "stub"
             /\ UNCHANGED <<files, ls, last>>
        ELSE /\ EndFetch("aborted")
             /\ UNCHANGED <<line_list, stub_i>>
    /\ UNCHANGED <<sp, caller, temp, section_j, seq_k, line_dict, startTemp, api>>
    /\ UNCHANGED <<rateVars, threadVars>>

\* for line_dict in line_list: if line_dict["id"] not in temp
NextStub ==
    /\ lpc = "stub"
    /\ stub_i <= Len(line_list)
    /\ IF Fetched(temp, line_list[stub_i].id)
       THEN /\ stub_i' = stub_i + 1
            /\ UNCHANGED <<lpc, line_dict, section_j>>
       ELSE /\ line_dict' = line_list[stub_i]
            /\ section_j' = 1
            /\ lpc' = "section"
            /\ UNCHANGED stub_i
    /\ UNCHANGED <<files, sp, ls, caller, temp, line_list, seq_k, reqlog,
                   startTemp, api, last>>
    /\ UNCHANGED <<rateVars, threadVars>>

\* for section in line_dict["routeSections"]: seq_dict = self.request(...).json()
RequestSequence ==
    /\ lpc = "section"
    /\ section_j <= Len(line_dict.routeSections)
    /\ reqlog' = Append(reqlog,
            SequenceEndpoint(line_dict.id, line_dict.routeSections[section_j].direction))
    /\ \E outcome \in RequestOutcomes :
        IF outcome = "ok"
        THEN /\ seq_k' = 1
             /\ lpc' = "stops"
             /\ UNCHANGED <<files, ls, last>>
        ELSE /\ EndFetch("aborted")
             /\ UNCHANGED seq_k
    /\ UNCHANGED <<sp, caller, temp, line_list, stub_i, section_j, line_dict,
                   startTemp, api>>
    /\ UNCHANGED <<rateVars, threadVars>>

\* for seq in seq_dict["stopPointSequences"]:
\*     stop_points = StopPointList.model_validate(seq["stopPoint"])
\*     self.stop_point_store.add_stop_points(stop_points.model_dump())
RegisterStopPoints ==
    /\ lpc = "stops"
    /\ LET seqs == StopPointSequences(line_dict.id,
                        line_dict.routeSections[section_j].direction) IN
       /\ seq_k <= Len(seqs)
       /\ \E valid \in BOOLEAN :
            IF valid
            THEN /\ AddStopPointsTo(ls.stop_point_store, seqs[seq_k])
                 /\ seq_k' = seq_k + 1
                 /\ UNCHANGED <<lpc, ls, last>>
            ELSE /\ EndFetch("aborted")
                 /\ UNCHANGED <<sp, seq_k>>
    /\ UNCHANGED <<caller, temp, line_list, stub_i, section_j, line_dict, reqlog,
                   startTemp, api>>
    /\ UNCHANGED <<rateVars, threadVars>>

\* route_sequence = RouteSequence.model_validate(seq_dict), merged into section
MergeSequence ==
    /\ lpc = "stops"
    /\ LET direction == line_dict.routeSections[section_j].direction IN
       /\ seq_k > Len(StopPointSequences(line_dict.id, direction))
       /\ \E valid \in BOOLEAN :
            IF valid
            THEN /\ line_dict' = MergeSection(line_dict, section_j,
                                    RouteSequenceOf(line_dict.id, direction))
                 /\ section_j' = section_j + 1
                 /\ lpc' = "section"
                 /\ UNCHANGED <<files, ls, last>>
            ELSE /\ EndFetch("aborted")
                 /\ UNCHANGED <<line_dict, section_j>>
    /\ UNCHANGED <<sp, caller, temp, line_list, stub_i, seq_k, reqlog, startTemp,
                   api>>
    /\ UNCHANGED <<rateVars, threadVars>>

\* line = Line.model_validate(line_dict); temp[line.id] = line.model_dump()
IndexLine ==
    /\ lpc = "section"
    /\ section_j > Len(line_dict.routeSections)
    /\ \E valid \in BOOLEAN :
        IF valid
        THEN /\ temp' = Indexed(temp, LineDump(line_dict))
             /\ stub_i' = stub_i + 1
             /\ lpc' = "stub"
             /\ UNCHANGED <<files, ls, last>>
        ELSE /\ EndFetch("aborted")
             /\ UNCHANGED <<temp, stub_i>>
    /\ UNCHANGED <<sp, caller, line_list, section_j, seq_k, line_dict, reqlog,
                   startTemp, api>>
    /\ UNCHANGED <<rateVars, threadVars>>

\* the loop over line_list is over: the else branch of the try
Complete ==
    /\ lpc = "stub"
    /\ stub_i > Len(line_list)
    /\ EndFetch("completed")
    /\ UNCHANGED <<sp, caller, temp, line_list, stub_i, section_j, seq_k,
                   line_dict, reqlog, startTemp, api>>
    /\ UNCHANGED <<rateVars, threadVars>>

\* the StopPointStore objects used on their own
InitStops ==
    /\ InitLimiter({DEFAULT_MAX_REQUESTS}, {DEFAULT_REQUEST_PERIOD})
    /\ InitStores({<<Stub("177")>>})

NextStops ==
    \/ \E s \in SpStores : NewStopPointStore(s)
    \/ \E s \in SpStores : LoadStopPoints(s)
    \/ \E s \in SpStores : SaveStopPoints(s)
    \/ \E s \in SpStores : \E stoppoints \in StopPointLists : AddStopPoints(s, stoppoints)

SpecStops == InitStops /\ [][NextStops]_vars

\* a LineStore and its StopPointStore
InitLines ==
    /\ InitLimiter({DEFAULT_MAX_REQUESTS}, {DEFAULT_REQUEST_PERIOD})
    /\ InitStores(LineLists)

NextLines ==
    \/ \E s \in SpStores : NewLineStore(s)
    \/ SaveLines
    \/ LoadLines
    \/ FetchLines
    \/ Collect
    \/ NextStub
    \/ RequestSequence
    \/ RegisterStopPoints
    \/ MergeSequence
    \/ IndexLine
    \/ Complete

SpecLines == InitLines /\ [][NextLines]_vars

\* the steps of a fetch() that is running: the interpreter goes on with the
\* next statement, a request that was made returns or fails
RunLines ==
    \/ Collect
    \/ NextStub
    \/ RequestSequence
    \/ RegisterStopPoints
    \/ MergeSequence
    \/ IndexLine
    \/ Complete

\* a program that constructs one LineStore after the other on the store
\* sp_store and calls load() and fetch()
NextRuns ==
    \/ NewLineStore("sp_store")
    \/ LoadLines
    \/ FetchLines
    \/ RunLines

\* that program with a fetch() that is never left standing
FairLines == InitLines /\ [][NextRuns]_vars /\ WF_vars(RunLines)

\* the stub the collection endpoint returns for a line once its route has
\* changed: one section, in the other direction
RevisedStub(id) ==
    [id |-> id,
     routeSections |-> <<[direction |-> IF Directions(id)[1] = "inbound"
                                        THEN "outbound" ELSE "inbound"]>>]

\* the collections of an API that changes between the runs: line p12 as it
\* was, with its route revised, and withdrawn
DriftLists ==
    {<<Stub("p12"), Stub("381")>>,
     <<RevisedStub("p12"), Stub("381")>>,
     <<Stub("381")>>}

\* between two calls the API starts to serve another collection
ApiChanges ==
    /\ lpc = "idle"
    /\ \E list \in DriftLists : list # api /\ api' = list
    /\ UNCHANGED <<files, sp, ls, fetchVars, last>>
    /\ UNCHANGED <<rateVars, threadVars>>

\* a LineStore and its StopPointStore, the API changing between the calls
InitDrift ==
    /\ InitLimiter({DEFAULT_MAX_REQUESTS}, {DEFAULT_REQUEST_PERIOD})
    /\ InitStores(DriftLists)

NextDrift ==
    \/ NextLines
    \/ ApiChanges

SpecDrift == InitDrift /\ [][NextDrift]_vars

\* ------------------------------------------- save() and a process that stops
\* the content of a file that was opened with "wb" and not written to its
\* end: no bytes or the head of a pickle, which pickle.load cannot read
Truncated == {<<"EOF", [id |-> "EOF", name |-> "EOF"]>>}

\* filepath.open("wb"): the file is there and holds nothing of what it held
OpenForWrite(fs, path) == Put(fs, path, Truncated)

\* a save() has opened the file and has not yet left the with block
Saving == last.op = "save" /\ last.stage = "open"

\* save() on the object s up to `with filepath.open("wb") as lib_file`
OpenSnapshot(s) ==
    /\ lpc = "idle"
    /\ ~Saving
    /\ sp[s].alive
    /\ files' = OpenForWrite(files, PklPath(StopPointStoreName))
    /\ sp' = [o \in SpStores |->
                IF sp[o].alive THEN [sp[o] EXCEPT !.synced = FALSE] ELSE sp[o]]
    /\ last' = [op |-> "save", who |-> s, stage |-> "open"]
    /\ UNCHANGED <<ls, fetchVars, api>>
    /\ UNCHANGED <<rateVars, threadVars>>

\* pickle.dump(self.data, lib_file); lib_file.close()
DumpSnapshot ==
    /\ Saving
    /\ files' = Store_save(files, StopPointStoreName, sp[last.who].data)
    /\ sp' = Wrote(sp, last.who)
    /\ last' = [last EXCEPT !.stage = "closed"]
    /\ UNCHANGED <<ls, fetchVars, api>>
    /\ UNCHANGED <<rateVars, threadVars>>

\* the process stops, inside a save() or between two calls: its objects are
\* gone, the files stay as they are
ProcessStops ==
    /\ \E s \in SpStores : sp[s].alive
    /\ sp' = [s \in SpStores |-> NoObject]
    /\ last' = [op |-> "stop", saving |-> Saving]
    /\ UNCHANGED <<files, ls, fetchVars, api>>
    /\ UNCHANGED <<rateVars, threadVars>>

\* load() on the object s: pickle.load raises on a file that was not written
\* to its end and self.data stays what it was
LoadSnapshot(s) ==
    /\ lpc = "idle"
    /\ ~Saving
    /\ sp[s].alive
    /\ LET path == PklPath(StopPointStoreName)
           unreadable == IsFile(files, path) /\ files[path] = Truncated
       IN
       /\ IF unreadable
          THEN /\ sp' = [sp EXCEPT ![s].fresh = FALSE]
               /\ files' = files
          ELSE LoadStopPointsOf(s)
       /\ last' = [op |-> "load", who |-> s,
                   hadFile |-> IsFile(files, path),
                   fresh |-> sp[s].fresh,
                   raised |-> IF unreadable THEN <<"EOFError">> ELSE None]
    /\ UNCHANGED <<ls, fetchVars, api>>
    /\ UNCHANGED <<rateVars, threadVars>>

\* StopPointStore objects of a process that may stop at any point; a call
\* other than save() is taken in one step
InitCrash ==
    /\ InitLimiter({DEFAULT_MAX_REQUESTS}, {DEFAULT_REQUEST_PERIOD})
    /\ InitStores({<<Stub("177")>>})

NextCrash ==
    \/ \E s \in SpStores : ~Saving /\ NewStopPointStore(s)
    \/ \E s \in SpStores : \E stoppoints \in StopPointLists :
          ~Saving /\ AddStopPoints(s, stoppoints)
    \/ \E s \in SpStores : OpenSnapshot(s)
    \/ DumpSnapshot
    \/ \E s \in SpStores : LoadSnapshot(s)
    \/ ProcessStops

SpecCrash == InitCrash /\ [][NextCrash]_vars

\* ------------------------------------------------------- claims C1 .. C4
\* the timestamps recorded in history that lie in the closed window [t, t + P]
InWindow(t, P) == {i \in DOMAIN recorded : t <= recorded[i] /\ recorded[i] <= t + P}

\* C1: every closed time window of length request_period holds at most
\* max_requests of the timestamps recorded in history for the calls the inner
\* transport completed.
C1_WindowBound ==
    \A t \in 0..MaxTime : Cardinality(InWindow(t, REQUEST_PERIOD)) <= MAX_REQUESTS

\* more calls than max_requests were completed and some window is full
C1_Witness ==
    /\ Len(recorded) > MAX_REQUESTS
    /\ \E t \in 0..MaxTime : Cardinality(InWindow(t, REQUEST_PERIOD)) = MAX_REQUESTS

\* C2: every call but the first is forwarded to the inner transport at least
\* debounce_interval = (P / M) * 0.7 after the call before it was forwarded.
C2_DebounceSpacing ==
    \A i \in 2..Len(issued) :
        DEBOUNCE_DEN * MAX_REQUESTS * (issued[i] - issued[i - 1])
            >= DEBOUNCE_NUM * REQUEST_PERIOD

\* C3: a call that found history holding max_requests timestamps is forwarded
\* only when the oldest of them is at least request_period old.
C3_BlocksUntilOldestExpires ==
    (pc = "inflight" /\ Len(entryHistory) >= MAX_REQUESTS)
        => issued[Len(issued)] - entryHistory[1] >= REQUEST_PERIOD

\* a call met a full history whose timestamps were all within request_period,
\* was held in the admission loop and has been forwarded
C3_Witness ==
    /\ pc = "inflight"
    /\ Len(entryHistory) >= MAX_REQUESTS
    /\ prev - entryHistory[1] <= REQUEST_PERIOD
    /\ issued[Len(issued)] > prev

\* C4: when the inner transport raises, handle_request ends with that same
\* error and history is what it was when the call was admitted.
C4_FailedCallNotCounted ==
    (pc = "idle" /\ inner \in Raises)
        => (result = inner /\ history = admitHistory)

\* a call failed while history held timestamps of earlier calls
C4_Witness ==
    /\ pc = "idle"
    /\ inner \in Raises
    /\ Len(history) > 0

\* ------------------------------------------------------ claims C5 .. C10
\* the ids of a list of stop points, and those of them a mapping does not hold
IdsOf(stoppoints) == {stoppoints[n].id : n \in DOMAIN stoppoints}
NewIds(stoppoints, data) == IdsOf(stoppoints) \ DOMAIN data

\* C5: add_stop_points leaves every entry that was in the index as it was, and
\* leaves the whole index as it was when every passed id was already in it.
C5_FirstWriterWins ==
    last.op = "add" =>
        LET data == sp[last.who].data IN
        /\ \A id \in DOMAIN last.before :
              id \in DOMAIN data /\ data[id] = last.before[id]
        /\ NewIds(last.stoppoints, last.before) = {} => data = last.before

\* a stop point was added under an id the index held with another payload
C5_Witness ==
    /\ last.op = "add"
    /\ \E n \in DOMAIN last.stoppoints :
          /\ last.stoppoints[n].id \in DOMAIN last.before
          /\ last.stoppoints[n] # last.before[last.stoppoints[n].id]

Persisted(fs) ==
    IF IsFile(fs, PklPath(StopPointStoreName))
    THEN Unpickle(fs[PklPath(StopPointStoreName)])
    ELSE EmptyDict

\* C7: a stop point id that is persisted stays persisted, with its payload,
\* over every construction, load() and add_stop_points() that follows.
C7_PersistedForGood ==
    [][last'.op # "save" =>
          \A id \in DOMAIN Persisted(files) :
              /\ id \in DOMAIN Persisted(files')
              /\ Persisted(files')[id] = Persisted(files)[id]]_vars

\* C8: load() on another store object of the same name, run while the file is
\* as a save() left it, yields the mapping that was saved.
C8_RoundTrip ==
    last.op = "load" =>
        \A s \in SpStores \ {last.who} :
            (sp[s].alive /\ sp[s].synced) => sp[last.who].data = sp[s].data

\* a freshly constructed store loaded what another object had saved, a mapping
\* of two stop points
C8_Witness ==
    /\ last.op = "load"
    /\ last.fresh
    /\ \E s \in SpStores \ {last.who} :
          /\ sp[s].alive
          /\ sp[s].synced
          /\ Cardinality(DOMAIN sp[s].data) = 2
          /\ sp[last.who].data = sp[s].data

\* C9: LineStore.load() calls fetch() exactly when there is no snapshot; with a
\* snapshot the mapping is the snapshot and no request is made; after a load()
\* that fetched, the snapshot exists and holds the mapping.
C9_LoadFetchesIffNoSnapshot ==
    (last.op = "load" /\ last.who = "l_store") =>
        /\ (caller = "load") <=> ~last.hadFile
        /\ last.hadFile => (ls.data = Unpickle(last.snapshot) /\ reqlog = <<>>)
        /\ (caller = "load" /\ lpc = "idle") =>
              /\ IsFile(files, PklPath(LineStoreName))
              /\ Unpickle(files[PklPath(LineStoreName)]) = ls.data

\* a load() without snapshot fetched a catalogue and has returned
C9_Witness ==
    /\ last.op = "load"
    /\ last.who = "l_store"
    /\ lpc = "idle"
    /\ caller = "load"
    /\ ls.data # EmptyDict

\* the ids of the stubs, the lines for which a sequence was requested
StubIds(list) == {list[n].id : n \in DOMAIN list}
RequestedLines ==
    {reqlog[n].line : n \in {m \in DOMAIN reqlog : reqlog[m].kind = "sequence"}}

\* C10: a fetch() that starts from a checkpoint and completes has requested
\* sequences for exactly the stubs that were not in the checkpoint and yields
\* the catalogue of an uninterrupted fetch over all stubs.
C10_Resumable ==
    (last.op \in {"fetch", "load"} /\ last.who = "l_store"
        /\ last.outcome = "completed") =>
        /\ RequestedLines = StubIds(line_list) \ DOMAIN startTemp
        /\ IF last.op = "fetch"
           THEN last.ret = <<FetchAll(line_list, EmptyDict)>>
           ELSE ls.data = FetchAll(line_list, EmptyDict)

\* a fetch() that started from a checkpoint holding some but not all of the
\* stubs has completed
C10_Witness ==
    /\ last.op = "fetch"
    /\ last.outcome = "completed"
    /\ startTemp # EmptyDict
    /\ StubIds(line_list) \ DOMAIN startTemp # {}

\* ----------------------------------------------------- claims C11 .. C20
\* the checkpoint of the mode on file
Checkpoint(fs) ==
    IF IsFile(fs, TempPath(LineStoreName))
    THEN Unpickle(fs[TempPath(LineStoreName)])
    ELSE EmptyDict

\* C11: the LineStore.load() that follows a load() which aborted and left a
\* checkpoint calls fetch(), which starts from that checkpoint.
C11_NextRunResumes ==
    [][(/\ lpc = "idle"
        /\ last.op = "load"
        /\ last.who = "l_store"
        /\ last.outcome = "aborted"
        /\ IsFile(files, TempPath(LineStoreName))
        /\ last'.op = "load")
          => (/\ lpc' = "collect"
              /\ caller' = "load"
              /\ temp' = Checkpoint(files))]_vars

\* C12: when a run has aborted at stub i, the checkpoint is on file as the run
\* returns and holds the checkpoint the run started from and the lines of the
\* stubs before stub i, and no line under the id of stub i.
C12_CheckpointHoldsProgress ==
    (last.op \in {"fetch", "load"} /\ last.who = "l_store"
        /\ last.outcome = "aborted") =>
        /\ lpc = "idle"
        /\ IsFile(files, TempPath(LineStoreName))
        /\ Checkpoint(files) = FetchAll(SubSeq(line_list, 1, stub_i - 1), startTemp)
        /\ stub_i \in DOMAIN line_list =>
              line_list[stub_i].id \notin DOMAIN Checkpoint(files)

\* a run that started from nothing has aborted at the second stub with the
\* line of the first stub in the checkpoint
C12_Witness ==
    /\ last.op \in {"fetch", "load"}
    /\ last.who = "l_store"
    /\ last.outcome = "aborted"
    /\ startTemp = EmptyDict
    /\ stub_i = 2
    /\ DOMAIN Checkpoint(files) = {line_list[1].id}

\* C13: a run that aborted does not hand its caller an empty catalogue the
\* way a run that succeeded hands over its catalogue: fetch() does not return
\* {} and load() does not leave the store with an empty mapping.
C13_SignalsPartialFailure ==
    (last.op \in {"fetch", "load"} /\ last.who = "l_store"
        /\ last.outcome = "aborted") =>
        IF last.op = "fetch" THEN last.ret # <<EmptyDict>>
        ELSE ls.data # EmptyDict

\* the canonical snapshot of the mode on file
Snapshot(fs) ==
    IF IsFile(fs, PklPath(LineStoreName))
    THEN Unpickle(fs[PklPath(LineStoreName)])
    ELSE EmptyDict

\* C14 as claimed: after a load() whose run processed every stub without
\* error the canonical snapshot holds a line for exactly the stub ids of the
\* collection, and there is no checkpoint file.
C14_ExactlyTheCollection ==
    (last.op = "load" /\ last.who = "l_store" /\ last.outcome = "completed") =>
        /\ IsFile(files, PklPath(LineStoreName))
        /\ DOMAIN Snapshot(files) = StubIds(line_list)
        /\ ~IsFile(files, TempPath(LineStoreName))

\* C14 as amended: after such a load() the canonical snapshot is the mapping
\* in memory, it holds the lines of the checkpoint the run started from as
\* they were and one line for every other stub id of the collection, and
\* there is no checkpoint file.
C14_CollectionAndCheckpoint ==
    (last.op = "load" /\ last.who = "l_store" /\ last.outcome = "completed") =>
        /\ IsFile(files, PklPath(LineStoreName))
        /\ Snapshot(files) = ls.data
        /\ Snapshot(files) = FetchAll(line_list, startTemp)
        /\ DOMAIN Snapshot(files) = StubIds(line_list) \cup DOMAIN startTemp
        /\ ~IsFile(files, TempPath(LineStoreName))

\* a load() has completed a run that started from a checkpoint holding a
\* line the collection does not return any more
C14_Witness ==
    /\ last.op = "load"
    /\ last.who = "l_store"
    /\ last.outcome = "completed"
    /\ DOMAIN startTemp \ StubIds(line_list) # {}

\* C15: the step in which a run ends aborted leaves the canonical snapshot
\* file as it was: absent if it was absent, with the same content if not.
C15_FailedRunKeepsSnapshot ==
    [][(lpc # "idle" /\ lpc' = "idle" /\ last'.outcome = "aborted") =>
          /\ IsFile(files', PklPath(LineStoreName))
                <=> IsFile(files, PklPath(LineStoreName))
          /\ Snapshot(files') = Snapshot(files)]_vars

\* C16: the canonical snapshot, when there is one, is the empty mapping or
\* the catalogue of a fetch over every stub of the collection; the lines of
\* some but not all stubs are on file in the checkpoint only.
C16_SnapshotNeverPartial ==
    IsFile(files, PklPath(LineStoreName)) =>
        \/ Snapshot(files) = EmptyDict
        \/ Snapshot(files) = FetchAll(api, EmptyDict)

\* the lines of some but not all stubs are in the checkpoint while the
\* canonical snapshot is on file
C16_Witness ==
    /\ IsFile(files, PklPath(LineStoreName))
    /\ Checkpoint(files) # EmptyDict
    /\ StubIds(api) \ DOMAIN Checkpoint(files) # {}

\* C17: a load() that runs after the process stopped, inside a save() or
\* not, reads a whole snapshot: it does not fail on a file that save() left
\* empty or written in part.
C17_LoadSeesWholeSnapshot ==
    last.op = "load" => last.raised = None

\* C18 as claimed: after every add_stop_points on a store that was loaded the
\* persisted stop point snapshot equals the mapping in memory.
C18_SnapshotEqualsMapping ==
    (last.op = "add" /\ sp[last.who].loaded) =>
        Persisted(files) = sp[last.who].data

\* C18 as amended: an add_stop_points that inserts an id leaves the snapshot
\* equal to the mapping in memory; one that inserts none leaves the files and
\* the mapping as they were.
C18_WriteThroughOnDirty ==
    [][last'.op = "add" =>
          IF NewIds(last'.stoppoints, sp[last'.who].data) # {}
          THEN /\ IsFile(files', PklPath(StopPointStoreName))
               /\ Persisted(files') = sp'[last'.who].data
          ELSE /\ files' = files
               /\ sp'[last'.who].data = sp[last'.who].data]_vars

\* an id was inserted into a loaded store that held another one, and both are
\* on file
C18_Witness ==
    /\ last.op = "add"
    /\ sp[last.who].loaded
    /\ Cardinality(DOMAIN last.before) = 1
    /\ Cardinality(NewIds(last.stoppoints, last.before)) = 1
    /\ Persisted(files) = sp[last.who].data

\* the requests of the running or last run for the route sequences of a line
SequenceRequests(id) ==
    {n \in DOMAIN reqlog : reqlog[n].kind = "sequence" /\ reqlog[n].line = id}

\* the stubs of the collection that carry the id, in the running or last run
StubsOf(id) == {n \in DOMAIN line_list : line_list[n].id = id}

\* C19: in a run the route sequences of a line are requested for one stub at
\* most, one request per route section of that stub, and not at all for a
\* line that was in the checkpoint the run started from.
C19_OneStubPerLine ==
    \A id \in LineIds :
        /\ id \in DOMAIN startTemp => SequenceRequests(id) = {}
        /\ Cardinality(SequenceRequests(id)) <= Len(Directions(id))
        /\ \A m, n \in SequenceRequests(id) :
              reqlog[m].direction = reqlog[n].direction => m = n

\* a run over a collection that returns a line in two stubs has requested
\* the sequences of that line and has completed
C19_Witness ==
    /\ last.op \in {"fetch", "load"}
    /\ last.who = "l_store"
    /\ last.outcome = "completed"
    /\ \E id \in LineIds :
          /\ Cardinality(StubsOf(id)) = 2
          /\ SequenceRequests(id) # {}

\* every entry of the mapping old is in the mapping new with the same value
Kept(old, new) ==
    \A id \in DOMAIN old : id \in DOMAIN new /\ new[id] = old[id]

\* C20: a step of a run keeps every line that is in the accumulating
\* catalogue, a run keeps every line of the checkpoint that was on file when
\* it started, and a checkpoint that replaces another keeps its lines,
\* whatever the API returns by then.
C20_AddOnly ==
    [][/\ lpc # "idle" => Kept(temp, temp')
       /\ lpc' # "idle" => Kept(Checkpoint(files), temp')
       /\ IsFile(files', TempPath(LineStoreName))
             => Kept(Checkpoint(files), Checkpoint(files'))]_vars

\* a run has completed over a collection whose stub for a line of the
\* checkpoint gives another line than the one stored, which is still there
C20_Witness ==
    /\ last.op \in {"fetch", "load"}
    /\ last.who = "l_store"
    /\ last.outcome = "completed"
    /\ \E n \in DOMAIN line_list :
          /\ line_list[n].id \in DOMAIN startTemp
          /\ startTemp[line_list[n].id] # LineDump(MergeAll(line_list[n], 1))
          /\ temp[line_list[n].id] = startTemp[line_list[n].id]

\* ----------------------------------------------------- claims C21 .. C30
\* the stop points of the sequences of a route-sequence response
StopIdsOf(id, direction) ==
    UNION {IdsOf(StopPointSequences(id, direction)[k]) :
              k \in DOMAIN StopPointSequences(id, direction)}

\* C21: the step that registers the stop points of a sequence leaves their ids
\* in the persisted Stop-Point Index, and no step of a LineStore, the failing
\* one included, takes an id out of the persisted index.
C21_RegisteredBeforeMerge ==
    [][/\ (lpc = "stops" /\ seq_k' = seq_k + 1) =>
            IdsOf(StopPointSequences(line_dict.id,
                    line_dict.routeSections[section_j].direction)[seq_k])
                \subseteq DOMAIN Persisted(files')
       /\ DOMAIN Persisted(files) \subseteq DOMAIN Persisted(files')]_vars

\* a run has aborted at the Line validation of a stub whose responses held
\* stop points: the line is not in the checkpoint, its stop points are in the
\* persisted index
C21_Witness ==
    /\ last.op \in {"fetch", "load"}
    /\ last.who = "l_store"
    /\ last.outcome = "aborted"
    /\ stub_i \in DOMAIN line_list
    /\ section_j > Len(line_list[stub_i].routeSections)
    /\ line_list[stub_i].id \notin DOMAIN Checkpoint(files)
    /\ \E n \in DOMAIN line_list[stub_i].routeSections :
          StopIdsOf(line_list[stub_i].id,
                    line_list[stub_i].routeSections[n].direction) # {}
    /\ \A n \in DOMAIN line_list[stub_i].routeSections :
          StopIdsOf(line_list[stub_i].id,
                    line_list[stub_i].routeSections[n].direction)
              \subseteq DOMAIN Persisted(files)

\* the requests for the route sections of a stub, in the stub's section order
SectionRequests(stub) ==
    [n \in 1..Len(stub.routeSections) |->
        SequenceEndpoint(stub.id, stub.routeSections[n].direction)]

\* the requests for the stubs of a list in the list's order, a stub whose id
\* was seen before making none
RECURSIVE RequestsFor(_, _)
RequestsFor(list, seen) ==
    IF list = <<>> THEN <<>>
    ELSE IF Head(list).id \in seen THEN RequestsFor(Tail(list), seen)
    ELSE SectionRequests(Head(list))
            \o RequestsFor(Tail(list), seen \cup {Head(list).id})

\* the requests of a whole run in program order
ProgramOrder ==
    <<CollectionEndpoint>> \o RequestsFor(line_list, DOMAIN startTemp)

\* C22: the requests a run has made so far are the first requests of the
\* program order (the collection, then per stub in collection order one
\* request per route section in section order), and all of them once the run
\* has completed.
C22_ProgramOrder ==
    /\ Len(reqlog) <= Len(ProgramOrder)
    /\ SubSeq(ProgramOrder, 1, Len(reqlog)) = reqlog
    /\ (last.op \in {"fetch", "load"} /\ last.who = "l_store"
          /\ last.outcome = "completed")
            => reqlog = ProgramOrder

\* a run over two stubs of different lines, one of them with two route
\* sections, has completed
C22_Witness ==
    /\ last.op \in {"fetch", "load"}
    /\ last.who = "l_store"
    /\ last.outcome = "completed"
    /\ Len(line_list) = 2
    /\ Len(reqlog) >= 4

\* C23: a fetch() that has started ends, completed or aborted; the step in
\* which something fails ends the run at once, with no further stub indexed
\* and no further request made.
C23_EndsInOneTerminalState ==
    /\ (lpc # "idle") ~>
          (/\ lpc = "idle"
           /\ last.op \in {"fetch", "load"}
           /\ last.who = "l_store"
           /\ last.outcome \in {"completed", "aborted"})
    /\ [][(lpc # "idle" /\ last'.outcome = "aborted") =>
             /\ lpc' = "idle"
             /\ temp' = temp
             /\ stub_i' = stub_i
             /\ Len(reqlog') <= Len(reqlog) + 1]_vars

\* a run has aborted at its second stub
C23_Witness ==
    /\ lpc = "idle"
    /\ last.op \in {"fetch", "load"}
    /\ last.who = "l_store"
    /\ last.outcome = "aborted"
    /\ stub_i = 2
    /\ Len(reqlog) >= 2

\* C24 as claimed: the timestamp appended for a call the inner transport
\* completed is the instant at which the inner transport returned.
C24_AppendsCompletionInstant ==
    [][(pc = "inflight" /\ pc' = "idle" /\ inner' \in Responses) =>
          history'[Len(history')] = clock']_vars

\* C24 as amended: the timestamp appended is `now`, the last clock reading of
\* the admission, taken before the call was forwarded: it is not later than
\* the instant the call was forwarded, which is not later than the instant
\* the inner transport returned.
C24_AppendsAdmissionReading ==
    [][(pc = "inflight" /\ pc' = "idle" /\ inner' \in Responses) =>
          /\ history' = Append(history, now)
          /\ now <= issued[Len(issued)]
          /\ issued[Len(issued)] <= clock']_vars

\* the inner transport has completed a call and the timestamp appended for it
\* is the instant the call was forwarded, which is past
C24_Witness ==
    /\ pc = "idle"
    /\ inner \in Responses
    /\ Len(history) > 0
    /\ history[Len(history)] = issued[Len(issued)]
    /\ clock > history[Len(history)]

\* C25: history is ordered oldest first, non-decreasing, in every reachable
\* state, and right after the eviction of a pass of the admission loop every
\* remaining member is no older than REQUEST_PERIOD relative to `now`.
C25_OrderedAndYoung ==
    /\ [](\A i, j \in DOMAIN history : i <= j => history[i] <= history[j])
    /\ [][(pc = "admit" /\ AtCapacity(history, MAX_REQUESTS)) =>
            \A i \in DOMAIN history' : now - history'[i] <= REQUEST_PERIOD]_vars

\* an eviction has removed a member and left a younger one behind
C25_Witness ==
    /\ pc \in {"admit", "refresh"}
    /\ Len(history) >= 1
    /\ Len(entryHistory) > Len(history)
    /\ history[1] > entryHistory[1]
    /\ now - history[1] <= REQUEST_PERIOD

\* C26: every wait of the admission loop is at most REQUEST_PERIOD less the
\* time elapsed since the loop was entered and at most the backoff of that
\* pass, and a pass that starts from a clock reading later than the entry
\* time plus REQUEST_PERIOD leaves the loop, so that the call is forwarded.
C26_BoundedAdmission ==
    /\ []((pc = "refresh" /\ wake # NoTime) =>
            /\ wake - now <= REQUEST_PERIOD - (now - timestamp)
            /\ \E backoff \in Backoffs(backoff_count - 1) : wake - now <= backoff)
    /\ [][(pc = "admit" /\ now > timestamp + REQUEST_PERIOD) =>
            \/ pc' = "inflight"
            \/ pc' = "admit" /\ ~AtCapacity(history', MAX_REQUESTS)]_vars

\* a call that waited in the admission loop has been forwarded from a clock
\* reading later than the entry time plus REQUEST_PERIOD
C26_Witness ==
    /\ pc = "inflight"
    /\ backoff_count >= 1
    /\ now > timestamp + REQUEST_PERIOD

\* C27: when the callers hold a lock around each handle_request call, every
\* closed window of length REQUEST_PERIOD holds at most MAX_REQUESTS recorded
\* timestamps and history never holds more than MAX_REQUESTS entries, however
\* the two threads interleave.
C27_CriticalSection ==
    lock # "absent" =>
        /\ Len(history) <= MAX_REQUESTS
        /\ \A t \in 0..MaxThreadTime :
              Cardinality(InWindow(t, REQUEST_PERIOD)) <= MAX_REQUESTS

\* two threads without a lock have both passed the admission test against
\* the same history, which now holds more than MAX_REQUESTS entries
C27_Witness ==
    /\ lock = "absent"
    /\ \A t \in Threads : threads[t].pc = "idle" /\ threads[t].result \in Responses
    /\ Len(history) > MAX_REQUESTS

\* C28: with one caller at a time history never holds more than MAX_REQUESTS
\* entries, after a call that succeeded and after a call that failed,
\* whatever the clock does.
C28_HistoryBounded ==
    Len(history) <= MAX_REQUESTS

\* more calls than MAX_REQUESTS were made, the last one has returned or
\* failed with history full, and the clock has been set back since
C28_Witness ==
    /\ pc = "idle"
    /\ inner \in Outcomes
    /\ ncalls > MAX_REQUESTS
    /\ Len(history) = MAX_REQUESTS
    /\ clock < prev

\* C29: a call for which the inner transport returned a response has added
\* exactly one entry to the history it was admitted with, whether the status
\* of the response is 2xx or not.
C29_ResponseTakesSlot ==
    (pc = "idle" /\ inner \in Responses) =>
        /\ Len(history) = Len(admitHistory) + 1
        /\ SubSeq(history, 1, Len(admitHistory)) = admitHistory

\* a non-2xx response has taken the last free slot of the window
C29_Witness ==
    /\ pc = "idle"
    /\ inner = "non2xx"
    /\ Len(history) = Len(admitHistory) + 1
    /\ Len(history) = MAX_REQUESTS

\* C30 as claimed: a load() that found no canonical snapshot and whose fetch
\* run aborted has left no canonical snapshot file behind.
C30_AbortLeavesNoSnapshot ==
    (/\ lpc = "idle"
     /\ last.op = "load"
     /\ last.who = "l_store"
     /\ last.outcome = "aborted"
     /\ ~last.hadFile) =>
        ~IsFile(files, PklPath(LineStoreName))

\* ----------------------------------------------------------- claim C31
\* C31: a run of fetch() starts from the checkpoint on file, leaves that file
\* alone while it runs, and when it aborts the checkpoint it writes holds
\* every line of the checkpoint it started from under the same id with the
\* same value, also when the collection request is the one that failed.
C31_CheckpointNeverShrinks ==
    [][/\ (lpc = "idle" /\ lpc' = "collect") => startTemp' = Checkpoint(files)
       /\ (lpc # "idle" /\ lpc' # "idle") => Checkpoint(files') = Checkpoint(files)
       /\ (lpc # "idle" /\ lpc' = "idle" /\ last'.outcome = "aborted") =>
             \A id \in DOMAIN startTemp :
                /\ id \in DOMAIN Checkpoint(files')
                /\ Checkpoint(files')[id] = startTemp[id]]_vars

\* a run that started from a checkpoint holding a line has aborted at the
\* collection request and the checkpoint on file is the one it started from
C31_Witness ==
    /\ lpc = "idle"
    /\ last.op \in {"fetch", "load"}
    /\ last.who = "l_store"
    /\ last.outcome = "aborted"
    /\ reqlog = <<CollectionEndpoint>>
    /\ line_list = <<>>
    /\ startTemp # EmptyDict
    /\ Checkpoint(files) = startTemp

====
